---- MODULE Spec2Model ----
(***************************************************************************)
(* Model of skills/openapi-validator/scripts/validate_openapi.py:          *)
(* load_spec, validate_schema, lint_spec and main.                         *)
(*                                                                         *)
(* Python values of the parsed document are tagged records.  A str is a    *)
(* sequence of one-character strings so that startswith, upper and str()   *)
(* are computed; a dict is the sequence of its <<key, value>> pairs in     *)
(* insertion order.                                                        *)
(***************************************************************************)
EXTENDS Integers, Sequences, FiniteSets, TLC

VARIABLES pc, args, env, spec, results, exc, exit_code, called

vars == <<pc, args, env, spec, results, exc, exit_code, called>>

(* ------------------------- Python values ------------------------------ *)

None == [t |-> "None"]

Bool(b) == [t |-> "bool", b |-> b]

Num(n) == [t |-> "num", n |-> n]

Str(s) == [t |-> "str", s |-> s]

List(l) == [t |-> "list", l |-> l]

Dict(d) == [t |-> "dict", d |-> d]

IsDict(v) == v.t = "dict"

IsStr(v) == v.t = "str"

\* bool(v): the truth value Python's `not v` / `if v` tests
Truthy(v) ==
  CASE v.t = "None" -> FALSE
    [] v.t = "bool" -> v.b
    [] v.t = "num"  -> v.n # 0
    [] v.t = "str"  -> Len(v.s) > 0
    [] v.t = "list" -> Len(v.l) > 0
    [] v.t = "dict" -> Len(v.d) > 0

\* `k in m` for a dict m
HasKey(m, k) == \E i \in 1..Len(m.d) : m.d[i][1] = k

\* m.get(k, dflt) for a dict m: a key that is present wins, whatever its value
DictGet(m, k, dflt) ==
  IF HasKey(m, k)
  THEN m.d[CHOOSE i \in 1..Len(m.d) : m.d[i][1] = k][2]
  ELSE dflt

\* s.startswith(prefix) on the characters of two strs
StartsWith(s, prefix) ==
  /\ Len(s) >= Len(prefix)
  /\ SubSeq(s, 1, Len(prefix)) = prefix

DigitChars == <<"0", "1", "2", "3", "4", "5", "6", "7", "8", "9">>

RECURSIVE IntToChars(_)
\* str(n) for a non-negative int
IntToChars(n) ==
  IF n < 10 THEN <<DigitChars[n + 1]>>
  ELSE IntToChars(n \div 10) \o <<DigitChars[(n % 10) + 1]>>

\* str(v) as the f-strings and str(code) compute it, for the key types str and int
PyStr(v) ==
  CASE v.t = "str" -> v.s
    [] v.t = "num" -> IntToChars(v.n)
    [] v.t = "None" -> <<"N", "o", "n", "e">>
    [] OTHER -> <<"?">>

LowerChars == <<"a", "c", "d", "e", "g", "h", "i", "l", "n", "o", "p", "s", "t", "u">>

UpperChars == <<"A", "C", "D", "E", "G", "H", "I", "L", "N", "O", "P", "S", "T", "U">>

\* str.upper() over the letters the method names use
Upper(s) ==
  [i \in 1..Len(s) |->
     IF \E j \in 1..Len(LowerChars) : LowerChars[j] = s[i]
     THEN UpperChars[CHOOSE j \in 1..Len(LowerChars) : LowerChars[j] = s[i]]
     ELSE s[i]]

(* -------------------- keys the code looks up --------------------------- *)

k_openapi == Str(<<"o", "p", "e", "n", "a", "p", "i">>)

k_info == Str(<<"i", "n", "f", "o">>)

k_title == Str(<<"t", "i", "t", "l", "e">>)

k_version == Str(<<"v", "e", "r", "s", "i", "o", "n">>)

k_description == Str(<<"d", "e", "s", "c", "r", "i", "p", "t", "i", "o", "n">>)

k_paths == Str(<<"p", "a", "t", "h", "s">>)

k_get == Str(<<"g", "e", "t">>)

k_post == Str(<<"p", "o", "s", "t">>)

k_put == Str(<<"p", "u", "t">>)

k_patch == Str(<<"p", "a", "t", "c", "h">>)

k_delete == Str(<<"d", "e", "l", "e", "t", "e">>)

k_head == Str(<<"h", "e", "a", "d">>)

k_options == Str(<<"o", "p", "t", "i", "o", "n", "s">>)

k_operationId == Str(<<"o", "p", "e", "r", "a", "t", "i", "o", "n", "I", "d">>)

k_summary == Str(<<"s", "u", "m", "m", "a", "r", "y">>)

k_responses == Str(<<"r", "e", "s", "p", "o", "n", "s", "e", "s">>)

k_default == Str(<<"d", "e", "f", "a", "u", "l", "t">>)

k_components == Str(<<"c", "o", "m", "p", "o", "n", "e", "n", "t", "s">>)

k_schemas == Str(<<"s", "c", "h", "e", "m", "a", "s">>)

k_type == Str(<<"t", "y", "p", "e">>)

k_ref == Str(<<"$", "r", "e", "f">>)

k_allOf == Str(<<"a", "l", "l", "O", "f">>)

k_oneOf == Str(<<"o", "n", "e", "O", "f">>)

k_anyOf == Str(<<"a", "n", "y", "O", "f">>)

k_security == Str(<<"s", "e", "c", "u", "r", "i", "t", "y">>)

k_securitySchemes == Str(<<"s", "e", "c", "u", "r", "i", "t", "y", "S", "c", "h", "e", "m", "e", "s">>)

k_servers == Str(<<"s", "e", "r", "v", "e", "r", "s">>)

(* ------------------- results of a call that may raise ------------------ *)

\* a call that returned the list ws
Ok(ws) == [exc |-> "none", w |-> ws]

\* a call that raised: the local list is lost with the frame
Raise(e) == [exc |-> e, w |-> <<>>]

\* statement sequencing: r2 runs only when r1 did not raise
Then(r1, r2) ==
  IF r1.exc # "none" THEN r1
  ELSE IF r2.exc # "none" THEN r2
  ELSE Ok(r1.w \o r2.w)

\* one appended message: the f-string template and its interpolated values
W(kind, a, b) == [kind |-> kind, a |-> a, b |-> b]

(* ------------------------------ lint_spec ------------------------------ *)

\* the method names taken in another order than the code's list
METHODS_Reordered == <<k_post, k_get, k_put, k_patch, k_delete, k_head, k_options>>

METHODS == <<k_get, k_post, k_put, k_patch, k_delete, k_head, k_options>>

\* the version check
VersionRule(doc) ==
  LET openapi_version == DictGet(doc, k_openapi, Str(<<>>)) IN
  IF ~Truthy(openapi_version)
  THEN Ok(<<W("missing_openapi", <<>>, <<>>)>>)
  ELSE IF ~IsStr(openapi_version) THEN Raise("AttributeError")
  ELSE IF ~StartsWith(openapi_version.s, <<"3", ".">>)
  THEN Ok(<<W("not_3x", openapi_version.s, <<>>)>>)
  ELSE Ok(<<>>)

\* one `if not info.get(field)` of the info section
InfoField(info, field, kind) ==
  IF ~Truthy(DictGet(info, field, None)) THEN <<W(kind, <<>>, <<>>)>> ELSE <<>>

\* the info check without its short-circuit: the field checks also run on an empty info
InfoRule_NoShortCircuit(doc) ==
  LET info == DictGet(doc, k_info, Dict(<<>>)) IN
  IF ~Truthy(info) /\ ~IsDict(info)
  THEN Ok(<<W("missing_info", <<>>, <<>>)>>)
  ELSE IF ~IsDict(info) THEN Raise("AttributeError")
  ELSE Ok((IF ~Truthy(info) THEN <<W("missing_info", <<>>, <<>>)>> ELSE <<>>)
          \o InfoField(info, k_title, "missing_info_title")
          \o InfoField(info, k_version, "missing_info_version")
          \o InfoField(info, k_description, "missing_info_description"))

\* the info section check
InfoRule(doc) ==
  LET info == DictGet(doc, k_info, Dict(<<>>)) IN
  IF ~Truthy(info)
  THEN Ok(<<W("missing_info", <<>>, <<>>)>>)
  ELSE IF ~IsDict(info) THEN Raise("AttributeError")
  ELSE Ok(InfoField(info, k_title, "missing_info_title")
          \o InfoField(info, k_version, "missing_info_version")
          \o InfoField(info, k_description, "missing_info_description"))

\* body of the loop over responses.items()
ResponseCheck(op_id, code, response) ==
  IF ~Truthy(response) THEN Ok(<<>>)
  ELSE IF ~IsDict(response) THEN Raise("AttributeError")
  ELSE IF ~Truthy(DictGet(response, k_description, None))
  THEN Ok(<<W("response_missing_description", op_id, PyStr(code))>>)
  ELSE Ok(<<>>)

RECURSIVE ResponsesLoop(_, _, _)
\* for code, response in responses.items(), from entry i on
ResponsesLoop(op_id, responses, i) ==
  IF i > Len(responses.d) THEN Ok(<<>>)
  ELSE Then(ResponseCheck(op_id, responses.d[i][1], responses.d[i][2]),
            ResponsesLoop(op_id, responses, i + 1))

\* the responses checks of one operation
ResponsesChecks(op_id, operation) ==
  LET responses == DictGet(operation, k_responses, Dict(<<>>)) IN
  IF ~Truthy(responses)
  THEN Ok(<<W("no_responses", op_id, <<>>)>>)
  ELSE IF ~IsDict(responses) THEN Raise("AttributeError")
  ELSE LET has_success ==
             \E i \in 1..Len(responses.d) :
                StartsWith(PyStr(responses.d[i][1]), <<"2">>)
       IN Then(Ok(IF ~has_success /\ ~HasKey(responses, k_default)
                  THEN <<W("no_success_response", op_id, <<>>)>>
                  ELSE <<>>),
               ResponsesLoop(op_id, responses, 1))

\* body of the loop over the method names, for one method of one path
OperationChecks(method, path, path_item) ==
  LET operation == DictGet(path_item, method, None) IN
  IF ~Truthy(operation) THEN Ok(<<>>)
  ELSE IF ~IsDict(operation) THEN Raise("AttributeError")
  ELSE LET op_id == Upper(method.s) \o <<" ">> \o path.s IN
       Then(Ok((IF ~Truthy(DictGet(operation, k_operationId, None))
                THEN <<W("missing_operationId", op_id, <<>>)>> ELSE <<>>)
               \o
               (IF /\ ~Truthy(DictGet(operation, k_summary, None))
                   /\ ~Truthy(DictGet(operation, k_description, None))
                THEN <<W("missing_summary", op_id, <<>>)>> ELSE <<>>)),
            ResponsesChecks(op_id, operation))

RECURSIVE MethodsLoop(_, _, _)
\* for method in [...], from the j-th method name on
MethodsLoop(path, path_item, j) ==
  IF j > Len(METHODS) THEN Ok(<<>>)
  ELSE Then(OperationChecks(METHODS[j], path, path_item),
            MethodsLoop(path, path_item, j + 1))

\* the path naming check
PathNaming(path) ==
  IF ~IsStr(path) THEN Raise("AttributeError")
  ELSE IF ~StartsWith(path.s, <<"/">>)
  THEN Ok(<<W("path_no_slash", path.s, <<>>)>>)
  ELSE Ok(<<>>)

\* the loop body with the null test ahead of the naming check
PathItemChecks_NullFirst(path, path_item) ==
  IF path_item = None THEN Ok(<<>>)
  ELSE Then(PathNaming(path),
            IF ~IsDict(path_item) THEN Raise("AttributeError")
            ELSE MethodsLoop(path, path_item, 1))

\* body of the loop over paths.items()
PathItemChecks(path, path_item) ==
  Then(PathNaming(path),
       IF path_item = None THEN Ok(<<>>)
       ELSE IF ~IsDict(path_item) THEN Raise("AttributeError")
       ELSE MethodsLoop(path, path_item, 1))

RECURSIVE PathsLoop(_, _)
\* for path, path_item in paths.items(), from entry i on
PathsLoop(paths, i) ==
  IF i > Len(paths.d) THEN Ok(<<>>)
  ELSE Then(PathItemChecks(paths.d[i][1], paths.d[i][2]), PathsLoop(paths, i + 1))

\* the paths check
PathsRule(doc) ==
  LET paths == DictGet(doc, k_paths, Dict(<<>>)) IN
  IF ~Truthy(paths)
  THEN Ok(<<W("no_paths", <<>>, <<>>)>>)
  ELSE IF ~IsDict(paths) THEN Raise("AttributeError")
  ELSE PathsLoop(paths, 1)

\* body of the loop over schemas.items()
SchemaCheck(schema_name, schema) ==
  IF ~Truthy(schema) THEN Ok(<<>>)
  ELSE IF ~IsDict(schema) THEN Raise("AttributeError")
  ELSE Ok((IF ~Truthy(DictGet(schema, k_description, None))
           THEN <<W("schema_missing_description", PyStr(schema_name), <<>>)>>
           ELSE <<>>)
          \o
          (IF /\ ~Truthy(DictGet(schema, k_type, None))
              /\ ~Truthy(DictGet(schema, k_ref, None))
              /\ ~Truthy(DictGet(schema, k_allOf, None))
              /\ ~Truthy(DictGet(schema, k_oneOf, None))
              /\ ~Truthy(DictGet(schema, k_anyOf, None))
           THEN <<W("schema_no_type", PyStr(schema_name), <<>>)>>
           ELSE <<>>))

RECURSIVE SchemasLoop(_, _)
\* for schema_name, schema in schemas.items(), from entry i on
SchemasLoop(schemas, i) ==
  IF i > Len(schemas.d) THEN Ok(<<>>)
  ELSE Then(SchemaCheck(schemas.d[i][1], schemas.d[i][2]), SchemasLoop(schemas, i + 1))

\* the components/schemas check
SchemasRule(doc) ==
  LET components == DictGet(doc, k_components, Dict(<<>>)) IN
  IF ~IsDict(components) THEN Raise("AttributeError")
  ELSE LET schemas == DictGet(components, k_schemas, Dict(<<>>)) IN
       IF ~IsDict(schemas) THEN Raise("AttributeError")
       ELSE SchemasLoop(schemas, 1)

\* the security check; components is a dict once the schemas check has passed
SecurityRule(doc) ==
  LET components == DictGet(doc, k_components, Dict(<<>>))
      security == DictGet(doc, k_security, List(<<>>))
      security_schemes == DictGet(components, k_securitySchemes, Dict(<<>>))
  IN Ok(IF Truthy(security) /\ ~Truthy(security_schemes)
        THEN <<W("security_without_schemes", <<>>, <<>>)>>
        ELSE <<>>)

\* the servers check
ServersRule(doc) ==
  LET servers == DictGet(doc, k_servers, List(<<>>)) IN
  Ok(IF ~Truthy(servers) THEN <<W("no_servers", <<>>, <<>>)>> ELSE <<>>)

\* lint_spec(spec): the list it returns, or the exception that escapes it
lint_spec(doc) ==
  IF ~IsDict(doc) THEN Raise("AttributeError")
  ELSE Then(VersionRule(doc),
       Then(InfoRule(doc),
       Then(PathsRule(doc),
       Then(SchemasRule(doc),
       Then(SecurityRule(doc),
            ServersRule(doc))))))

(* ------------------------------ load_spec ------------------------------ *)

\* yaml.safe_load(content): the tree, or yaml.YAMLError
yaml_safe_load(content) ==
  IF content.yaml.ok THEN [exc |-> "none", doc |-> content.yaml.doc]
  ELSE [exc |-> "YAMLError", doc |-> None]

\* json.loads(content): the tree, or json.JSONDecodeError
json_loads(content) ==
  IF content.json.ok THEN [exc |-> "none", doc |-> content.json.doc]
  ELSE [exc |-> "JSONDecodeError", doc |-> None]

\* load_spec(file_path) in the environment e: the tree, or the exception raised
load_spec(e) ==
  IF ~e.exists THEN [exc |-> "FileNotFoundError", doc |-> None]
  ELSE IF e.suffix \in {".yaml", ".yml"}
  THEN IF ~e.YAML_AVAILABLE THEN [exc |-> "ImportError", doc |-> None]
       ELSE yaml_safe_load(e.content)
  ELSE IF e.suffix = ".json" THEN json_loads(e.content)
  ELSE IF e.YAML_AVAILABLE /\ yaml_safe_load(e.content).exc = "none"
       THEN yaml_safe_load(e.content)
       ELSE json_loads(e.content)

(* --------------------------- validate_schema --------------------------- *)

Whitespace == {" ", "\t", "\n"}

RECURSIVE LStrip(_)
LStrip(s) ==
  IF s # <<>> /\ Head(s) \in Whitespace THEN LStrip(Tail(s)) ELSE s

RECURSIVE RStrip(_)
RStrip(s) ==
  IF s # <<>> /\ s[Len(s)] \in Whitespace THEN RStrip(SubSeq(s, 1, Len(s) - 1)) ELSE s

\* str.strip()
Strip(s) == RStrip(LStrip(s))

\* one entry of results['schema_errors']: the message prefix and the text after it
E(tag, msg) == [tag |-> tag, msg |-> msg]

\* validate_schema(file_path): the list returned and whether validate() was
\* entered; outcome is what validate(read_from_filename(file_path)) does
validate_schema(available, outcome) ==
  IF ~available
  THEN [errors |-> <<E("ERROR", <<"n", "o", "t", " ", "i", "n", "s", "t", "a", "l", "l", "e", "d">>)>>,
        invoked |-> FALSE]
  ELSE IF outcome.exc = "none" THEN [errors |-> <<>>, invoked |-> TRUE]
  ELSE IF outcome.exc = "OpenAPIValidationError"
  THEN [errors |-> <<E("SCHEMA ERROR", outcome.msg)>>, invoked |-> TRUE]
  ELSE LET error_msg == Strip(outcome.msg) IN
       [errors |-> IF error_msg # <<>> THEN <<E("ERROR", error_msg)>> ELSE <<>>,
        invoked |-> TRUE]

(* ------------------------- documents and inputs ------------------------ *)

MaxPaths == 2

MaxResponses == 2

Chars(c) == Str(<<c>>)

s_3_0 == Str(<<"3", ".", "0">>)

s_2_0 == Str(<<"2", ".", "0">>)

s_200 == Str(<<"2", "0", "0">>)

p_x == Str(<<"/", "x">>)

p_y == Str(<<"y">>)

p_z == Str(<<"/", "z">>)

k_other == Str(<<"x", "-", "k">>)

\* dicts of at most n entries with distinct keys, in every insertion order
DictsOver(Keys, Vals, n) ==
  UNION { { Dict(f) : f \in { g \in [1..k -> Keys \X Vals] :
                               \A i, j \in 1..k : i # j => g[i][1] # g[j][1] } }
          : k \in 0..n }

\* marks a key the document does not have
Absent == [t |-> "absent"]

\* a dict value or the absence of the key: the entries it contributes
Entry(k, v) == IF v = Absent THEN <<>> ELSE << <<k, v>> >>

CleanResponse == Dict(<< <<k_description, Chars("r")>> >>)

CleanInfo ==
  Dict(<< <<k_title, Chars("T")>>, <<k_version, Chars("1")>>, <<k_description, Chars("d")>> >>)

CleanOperation ==
  Dict(<< <<k_operationId, Chars("f")>>, <<k_summary, Chars("s")>>,
          <<k_responses, Dict(<< <<s_200, CleanResponse>> >>)>> >>)

\* a non-empty operation with none of the fields the checks look for
BareOperation == Dict(<< <<k_other, Bool(TRUE)>> >>)

CleanSchema == Dict(<< <<k_description, Chars("d")>>, <<k_type, Chars("o")>> >>)

ResponseVals == {None, Dict(<<>>), CleanResponse, Dict(<< <<k_description, Str(<<>>)>> >>)}

ResponseCodes == {s_200, Num(404), k_default}

ResponsesVals ==
  DictsOver(ResponseCodes, ResponseVals, MaxResponses) \cup {None, List(<<Chars("r")>>)}

\* operations around every responses value, with and without the other fields
Operations ==
  { Dict(<< <<k_responses, r>> >>) : r \in ResponsesVals }
  \cup { Dict(<< <<k_operationId, Chars("f")>>, <<k_description, Chars("d")>>, <<k_responses, r>> >>)
         : r \in ResponsesVals }
  \cup {CleanOperation, BareOperation}

PathItemVals ==
  { None,
    Dict(<<>>),
    Dict(<< <<k_get, CleanOperation>> >>),
    Dict(<< <<k_get, Dict(<<>>)>>, <<k_put, None>> >>),
    Dict(<< <<k_post, BareOperation>>, <<k_get, BareOperation>> >>),
    Dict(<< <<k_other, List(<<>>)>>, <<k_options, BareOperation>>, <<k_delete, CleanOperation>> >>),
    Chars("p") }

PathKeys == {p_x, p_y, p_z}

PathsVals == DictsOver(PathKeys, PathItemVals, MaxPaths)

\* the document built from one value (or Absent) per top-level key
Doc(openapi, info, paths, components, security, servers) ==
  Dict(Entry(k_openapi, openapi) \o Entry(k_info, info) \o Entry(k_paths, paths)
       \o Entry(k_components, components) \o Entry(k_security, security)
       \o Entry(k_servers, servers))

OpenapiVals == {Absent, s_3_0, s_2_0, Str(<<>>), Chars("3"), Num(3)}

InfoVals ==
  {Absent, None, Dict(<<>>), CleanInfo, Dict(<< <<k_other, Num(1)>> >>),
   Dict(<< <<k_version, Chars("1")>>, <<k_title, Str(<<>>)>> >>), Chars("i")}

ComponentsVals ==
  {Absent, None, Dict(<<>>),
   Dict(<< <<k_schemas, Dict(<< <<Chars("A"), CleanSchema>> >>)>> >>),
   Dict(<< <<k_schemas, Dict(<< <<Chars("B"), BareOperation>>, <<Num(7), None>>,
                                <<Chars("C"), Dict(<< <<k_ref, Chars("A")>> >>)>> >>)>>,
           <<k_securitySchemes, Dict(<< <<Chars("k"), Dict(<<>>)>> >>)>> >>),
   Dict(<< <<k_schemas, None>> >>),
   Dict(<< <<k_schemas, Dict(<< <<Chars("D"), Chars("s")>> >>)>> >>)}

SecurityVals == {Absent, List(<< Dict(<< <<Chars("k"), List(<<>>)>> >>) >>)}

ServersVals == {Absent, List(<< Dict(<< <<Chars("u"), Chars("h")>> >>) >>)}

\* every combination of the top-level sections around a few paths values
TopDocs ==
  { Doc(o, i, p, c, s, v) :
      o \in OpenapiVals, i \in InfoVals,
      p \in {Absent, Dict(<<>>), Dict(<< <<p_x, Dict(<< <<k_get, CleanOperation>> >>)>> >>)},
      c \in ComponentsVals, s \in SecurityVals, v \in ServersVals }

\* every paths value, alone, in a clean document and in one where every rule fires
PathDocs ==
  { Doc(Absent, Absent, p, Absent, Absent, Absent) : p \in PathsVals }
  \cup { Doc(s_3_0, CleanInfo, p, Absent, Absent, List(<<Chars("u")>>)) : p \in PathsVals }
  \cup { Doc(s_2_0, Dict(<< <<k_other, Num(1)>> >>), p,
             Dict(<< <<k_schemas, Dict(<< <<Chars("B"), BareOperation>> >>)>> >>),
             List(<<Chars("k")>>), Absent) : p \in PathsVals }

\* every operation, as GET of the only path of a document with nothing else
OperationDocs ==
  { Doc(Absent, Absent, Dict(<< <<p_x, Dict(<< <<k_get, op>> >>)>> >>),
        Absent, Absent, Absent) : op \in Operations }

\* trees whose root is not a mapping (an empty YAML file loads as None)
RootDocs == {None, List(<<>>), Chars("t")}

Docs == TopDocs \cup PathDocs \cup OperationDocs \cup RootDocs

\* the trees the runs of main load
MainDocs ==
  { Dict(<<>>),
    Doc(s_3_0, CleanInfo, Dict(<< <<p_x, Dict(<< <<k_get, CleanOperation>> >>)>> >>),
        Absent, Absent, List(<<Chars("u")>>)),
    Doc(Absent, Absent, Dict(<< <<p_x, Dict(<< <<k_get, Dict(<< <<k_responses,
        Dict(<< <<s_200, Dict(<<>>)>> >>)>> >>)>> >>)>> >>), Absent, Absent, Absent),
    Doc(Num(3), CleanInfo, Absent, Absent, Absent, Absent),
    Doc(s_3_0, CleanInfo, Absent, None, Absent, Absent),
    None }

Parsed(d) == [ok |-> TRUE, doc |-> d]

Malformed == [ok |-> FALSE, doc |-> None]

\* file contents by what each parser makes of them: JSON text (which YAML also
\* reads), YAML-only text, and text neither parser accepts
Contents ==
  { [yaml |-> Parsed(d), json |-> Parsed(d)] : d \in MainDocs }
  \cup { [yaml |-> Parsed(d), json |-> Malformed] : d \in MainDocs }
  \cup { [yaml |-> Malformed, json |-> Malformed] }

Messages == { <<>>, <<" ">>, <<"b">>, <<" ", "b", "\n">> }

\* what validate(read_from_filename(file_path)) does on the file
ValidatorOutcomes ==
  { [exc |-> "none", msg |-> <<>>] }
  \cup { [exc |-> "OpenAPIValidationError", msg |-> m] : m \in {<<"b">>} }
  \cup { [exc |-> "Exception", msg |-> m] : m \in Messages }

(* --------------------------------- main --------------------------------- *)

InitResults == [valid |-> TRUE, schema_errors |-> <<>>, lint_warnings |-> <<>>]

\* one entry of the call log: the function, how it ended, the length it returned
Call(fn, e, n) == [fn |-> fn, exc |-> e, n |-> n]

Init ==
  /\ pc = "load"
  /\ args \in [lint_only : BOOLEAN, schema_only : BOOLEAN]
  /\ env \in [exists : BOOLEAN, suffix : {".yaml", ".yml", ".json", ".txt"},
              YAML_AVAILABLE : BOOLEAN, VALIDATOR_AVAILABLE : BOOLEAN,
              content : Contents, validator : ValidatorOutcomes]
  /\ spec = None
  /\ results = InitResults
  /\ exc = "none"
  /\ exit_code = -1
  /\ called = <<>>

\* spec = load_spec(args.spec_file)
LoadSpec ==
  /\ pc = "load"
  /\ LET r == load_spec(env) IN
       /\ called' = Append(called, Call("load_spec", r.exc, 0))
       /\ IF r.exc = "none"
          THEN spec' = r.doc /\ exc' = exc /\ pc' = "schema"
          ELSE spec' = spec /\ exc' = r.exc /\ pc' = "except"
  /\ UNCHANGED <<args, env, results, exit_code>>

\* if not args.lint_only: the schema validation
SchemaValidation ==
  /\ pc = "schema"
  /\ ~args.lint_only
  /\ LET r == validate_schema(env.VALIDATOR_AVAILABLE, env.validator) IN
       /\ results' = [results EXCEPT !.schema_errors = r.errors,
                                     !.valid = IF r.errors # <<>> THEN FALSE ELSE @]
       /\ called' = called
                    \o <<Call("validate_schema", "none", Len(r.errors))>>
                    \o (IF r.invoked THEN <<Call("validate", env.validator.exc, 0)>> ELSE <<>>)
  /\ pc' = "lint"
  /\ UNCHANGED <<args, env, spec, exc, exit_code>>

\* args.lint_only: the schema validation is skipped
SkipSchemaValidation ==
  /\ pc = "schema"
  /\ args.lint_only
  /\ pc' = "lint"
  /\ UNCHANGED <<args, env, spec, results, exc, exit_code, called>>

\* if not args.schema_only: the linting
Linting ==
  /\ pc = "lint"
  /\ ~args.schema_only
  /\ LET r == lint_spec(spec) IN
       /\ called' = Append(called, Call("lint_spec", r.exc, Len(r.w)))
       /\ IF r.exc = "none"
          THEN /\ results' = [results EXCEPT !.lint_warnings = r.w]
               /\ exc' = exc
               /\ pc' = "output"
          ELSE /\ results' = results
               /\ exc' = r.exc
               /\ pc' = "except"
  /\ UNCHANGED <<args, env, spec, exit_code>>

\* args.schema_only: the linting is skipped
SkipLinting ==
  /\ pc = "lint"
  /\ args.schema_only
  /\ pc' = "output"
  /\ UNCHANGED <<args, env, spec, results, exc, exit_code, called>>

\* except FileNotFoundError as e
ExceptFileNotFound ==
  /\ pc = "except"
  /\ exc = "FileNotFoundError"
  /\ results' = [results EXCEPT !.valid = FALSE,
                                !.schema_errors = <<E("File not found", <<>>)>>]
  /\ exc' = "none"
  /\ pc' = "output"
  /\ UNCHANGED <<args, env, spec, exit_code, called>>

\* the handler recording the failure without clearing the valid flag
ExceptException_KeepsValid ==
  /\ pc = "except"
  /\ exc # "FileNotFoundError"
  /\ results' = [results EXCEPT !.schema_errors = <<E("Failed to parse spec", <<>>)>>]
  /\ exc' = "none"
  /\ pc' = "output"
  /\ UNCHANGED <<args, env, spec, exit_code, called>>

\* except Exception as e
ExceptException ==
  /\ pc = "except"
  /\ exc # "FileNotFoundError"
  /\ results' = [results EXCEPT !.valid = FALSE,
                                !.schema_errors = <<E("Failed to parse spec", <<>>)>>]
  /\ exc' = "none"
  /\ pc' = "output"
  /\ UNCHANGED <<args, env, spec, exit_code, called>>

\* the report is printed and sys.exit(0 if results['valid'] else 1)
Exit ==
  /\ pc = "output"
  /\ exit_code' = IF results.valid THEN 0 ELSE 1
  /\ pc' = "done"
  /\ UNCHANGED <<args, env, spec, results, exc, called>>

Next ==
  \/ LoadSpec
  \/ SchemaValidation
  \/ SkipSchemaValidation
  \/ Linting
  \/ SkipLinting
  \/ ExceptFileNotFound
  \/ ExceptException
  \/ Exit

Spec == Init /\ [][Next]_vars

(* ------------------------ lint_spec on every tree ----------------------- *)

DefaultArgs == [lint_only |-> TRUE, schema_only |-> FALSE]

DefaultEnv ==
  [exists |-> TRUE, suffix |-> ".json", YAML_AVAILABLE |-> TRUE,
   VALIDATOR_AVAILABLE |-> TRUE,
   content |-> [yaml |-> Malformed, json |-> Malformed],
   validator |-> [exc |-> "none", msg |-> <<>>]]

InitLint ==
  /\ pc = "lint_call"
  /\ args = DefaultArgs
  /\ env = DefaultEnv
  /\ spec \in Docs
  /\ results = InitResults
  /\ exc = "none"
  /\ exit_code = -1
  /\ called = <<>>

\* warnings = lint_spec(spec), or the exception that escapes the call
LintCall ==
  /\ pc = "lint_call"
  /\ LET r == lint_spec(spec) IN
       /\ results' = [results EXCEPT !.lint_warnings = r.w]
       /\ exc' = r.exc
       /\ called' = Append(called, Call("lint_spec", r.exc, Len(r.w)))
  /\ pc' = "lint_return"
  /\ UNCHANGED <<args, env, spec, exit_code>>

NextLint == LintCall

SpecLint == InitLint /\ [][NextLint]_vars

(* ------------------------------ properties ------------------------------ *)

Range(q) == { q[i] : i \in 1..Len(q) }

\* lint_spec was called on spec and returned results.lint_warnings
LintReturned == pc = "lint_return" /\ exc = "none"

\* the paths mapping of spec, for a spec that is a mapping
PathsOf == DictGet(spec, k_paths, Dict(<<>>))

ClaimedMethodOrder == <<k_get, k_post, k_put, k_patch, k_delete, k_head, k_options>>

OperationKinds ==
  {"missing_operationId", "missing_summary", "no_responses", "no_success_response",
   "response_missing_description"}

\* the "<METHOD> <path>" identifier of the operation under method of path
OpId(method, path) == Upper(method.s) \o <<" ">> \o path.s

OpIds(path) == { OpId(ClaimedMethodOrder[j], path) : j \in 1..Len(ClaimedMethodOrder) }

RuleOf(kind) ==
  CASE kind \in {"missing_openapi", "not_3x"} -> 1
    [] kind \in {"missing_info", "missing_info_title", "missing_info_version",
                 "missing_info_description"} -> 2
    [] kind \in {"no_paths", "path_no_slash"} \cup OperationKinds -> 3
    [] kind \in {"schema_missing_description", "schema_no_type"} -> 4
    [] kind = "security_without_schemes" -> 5
    [] kind = "no_servers" -> 6

\* position <<path index, method index>> a warning of the paths loop refers to;
\* the naming warning of a path comes before its operations (method index 0)
Rank(w) ==
  IF w.kind = "path_no_slash"
  THEN <<CHOOSE i \in 1..Len(PathsOf.d) : PathsOf.d[i][1] = Str(w.a), 0>>
  ELSE CHOOSE r \in (1..Len(PathsOf.d)) \X (1..Len(ClaimedMethodOrder)) :
         PathsOf.d[r[1]][1].t = "str" /\ w.a = OpId(ClaimedMethodOrder[r[2]], PathsOf.d[r[1]][1])

RankLeq(r1, r2) == r1[1] < r2[1] \/ (r1[1] = r2[1] /\ r1[2] <= r2[2])

\* C7: warnings come out in the rule order version, info, paths, schemas,
\* security, servers; within the paths rule they follow the document's path
\* order and, within a path, the order get, post, put, patch, delete, head,
\* options, whatever the order of the method keys in the document
C7_RuleAndMethodOrder ==
  LintReturned =>
    LET ws == results.lint_warnings IN
    \A i, j \in 1..Len(ws) :
      i < j =>
        /\ RuleOf(ws[i].kind) <= RuleOf(ws[j].kind)
        /\ ({ws[i].kind, ws[j].kind} \subseteq OperationKinds \cup {"path_no_slash"}
              => RankLeq(Rank(ws[i]), Rank(ws[j])))

\* all six rules warn, and a path item listing post before get has warnings for both
C7_Witness ==
  /\ LintReturned
  /\ { RuleOf(w.kind) : w \in Range(results.lint_warnings) } = 1..6
  /\ Len(PathsOf.d) = 2
  /\ \E i \in 1..Len(PathsOf.d) :
       LET item == PathsOf.d[i][2] IN
       /\ IsDict(item) /\ Len(item.d) = 2
       /\ item.d[1][1] = k_post /\ item.d[2][1] = k_get
       /\ W("missing_operationId", OpId(k_post, PathsOf.d[i][1]), <<>>) \in Range(results.lint_warnings)
       /\ W("missing_operationId", OpId(k_get, PathsOf.d[i][1]), <<>>) \in Range(results.lint_warnings)

\* number of entries of q equal to w
Count(q, w) == Cardinality({ i \in 1..Len(q) : q[i] = w })

\* C8: a path whose item is null gets no operation-level warning, its naming
\* check still runs (one warning iff the path does not start with '/'), and the
\* traversal goes on to the next path, whose own checks run
C8_NullPathItem ==
  (LintReturned /\ IsDict(spec) /\ Truthy(PathsOf)) =>
    LET ws == results.lint_warnings
        n == Len(PathsOf.d)
    IN \A i \in 1..n :
         PathsOf.d[i][2] = None =>
           /\ \A w \in Range(ws) :
                ~(w.kind \in OperationKinds /\ w.a \in OpIds(PathsOf.d[i][1]))
           /\ Count(ws, W("path_no_slash", PathsOf.d[i][1].s, <<>>))
                = IF StartsWith(PathsOf.d[i][1].s, <<"/">>) THEN 0 ELSE 1
           /\ i < n =>
                LET next == PathsOf.d[i + 1] IN
                /\ Count(ws, W("path_no_slash", next[1].s, <<>>))
                     = IF StartsWith(next[1].s, <<"/">>) THEN 0 ELSE 1
                /\ \A j \in 1..Len(ClaimedMethodOrder) :
                     (/\ IsDict(next[2])
                      /\ Truthy(DictGet(next[2], ClaimedMethodOrder[j], None))
                      /\ ~Truthy(DictGet(DictGet(next[2], ClaimedMethodOrder[j], None),
                                         k_operationId, None)))
                     => W("missing_operationId", OpId(ClaimedMethodOrder[j], next[1]), <<>>)
                          \in Range(ws)

\* a null item under a path without leading '/', followed by a path whose operations warn
C8_Witness ==
  /\ LintReturned /\ IsDict(spec) /\ Truthy(PathsOf)
  /\ \E i \in 1..(Len(PathsOf.d) - 1) :
       /\ PathsOf.d[i][2] = None
       /\ ~StartsWith(PathsOf.d[i][1].s, <<"/">>)
       /\ W("path_no_slash", PathsOf.d[i][1].s, <<>>) \in Range(results.lint_warnings)
       /\ \E w \in Range(results.lint_warnings) :
            w.kind \in OperationKinds /\ w.a \in OpIds(PathsOf.d[i + 1][1])

IsInfoWarning(w) == RuleOf(w.kind) = 2

InfoWarnings == SelectSeq(results.lint_warnings, IsInfoWarning)

\* C9: info absent or empty gives exactly one info warning, the missing-section
\* one; info present (non-empty) without title, version and description gives
\* exactly three, in the order title, version, description
C9_InfoWarnings ==
  (LintReturned /\ IsDict(spec)) =>
    LET info == DictGet(spec, k_info, Absent) IN
    /\ (info = Absent \/ info = Dict(<<>>))
         => InfoWarnings = <<W("missing_info", <<>>, <<>>)>>
    /\ (/\ info # Absent /\ IsDict(info) /\ info # Dict(<<>>)
        /\ ~HasKey(info, k_title) /\ ~HasKey(info, k_version) /\ ~HasKey(info, k_description))
         => InfoWarnings = << W("missing_info_title", <<>>, <<>>),
                              W("missing_info_version", <<>>, <<>>),
                              W("missing_info_description", <<>>, <<>>) >>

\* an empty info mapping that produced the single missing-section warning
C9_Witness ==
  /\ LintReturned /\ IsDict(spec)
  /\ DictGet(spec, k_info, Absent) = Dict(<<>>)
  /\ InfoWarnings = <<W("missing_info", <<>>, <<>>)>>

\* C3: no exception escapes lint_spec, whatever tree the parser produced
C3_LintNeverFails == pc = "lint_return" => exc = "none"

\* the response entries of an operation that are non-null and lack a description
NeedsDescription(e) ==
  e[2] # None /\ ~(IsDict(e[2]) /\ Truthy(DictGet(e[2], k_description, None)))

\* C6: for every operation with non-empty responses, the missing-description
\* warnings of that operation are exactly those of its non-null entries lacking
\* a description (an empty mapping included), in document order
C6_ResponseDescriptions ==
  (LintReturned /\ IsDict(spec) /\ Truthy(PathsOf)) =>
    \A i \in 1..Len(PathsOf.d) : \A j \in 1..Len(ClaimedMethodOrder) :
      LET path == PathsOf.d[i][1]
          item == PathsOf.d[i][2]
          op == IF IsDict(item) THEN DictGet(item, ClaimedMethodOrder[j], None) ELSE None
          responses == IF IsDict(op) THEN DictGet(op, k_responses, None) ELSE None
          op_id == OpId(ClaimedMethodOrder[j], path)
          IsMine(w) == w.kind = "response_missing_description" /\ w.a = op_id
          needing == IF IsDict(responses) THEN SelectSeq(responses.d, NeedsDescription) ELSE <<>>
      IN (IsDict(responses) /\ Truthy(responses)) =>
           SelectSeq(results.lint_warnings, IsMine)
             = [k \in 1..Len(needing) |->
                  W("response_missing_description", op_id, PyStr(needing[k][1]))]

\* C10: every recognized method key with a non-null value (an empty mapping
\* included) gets the operation checks; an absent or null one gets no warning
C10_OperationChecks ==
  (LintReturned /\ IsDict(spec) /\ Truthy(PathsOf)) =>
    \A i \in 1..Len(PathsOf.d) : \A j \in 1..Len(ClaimedMethodOrder) :
      LET path == PathsOf.d[i][1]
          item == PathsOf.d[i][2]
          op == IF IsDict(item) THEN DictGet(item, ClaimedMethodOrder[j], None) ELSE None
          op_id == OpId(ClaimedMethodOrder[j], path)
          ws == Range(results.lint_warnings)
      IN IsDict(item) =>
           IF IsDict(op)
           THEN /\ ~Truthy(DictGet(op, k_operationId, None))
                     => W("missing_operationId", op_id, <<>>) \in ws
                /\ (~Truthy(DictGet(op, k_summary, None)) /\ ~Truthy(DictGet(op, k_description, None)))
                     => W("missing_summary", op_id, <<>>) \in ws
                /\ ~Truthy(DictGet(op, k_responses, None))
                     => W("no_responses", op_id, <<>>) \in ws
           ELSE op = None => \A w \in ws : ~(w.kind \in OperationKinds /\ w.a = op_id)

\* load_spec was called and raised
LoadRaised == Len(called) >= 1 /\ called[1].fn = "load_spec" /\ called[1].exc # "none"

\* the file is missing, or holds text neither parser accepts
InputUnloadable == ~env.exists \/ (~env.content.yaml.ok /\ ~env.content.json.ok)

CallsOf(fn) == { i \in 1..Len(called) : called[i].fn = fn }

\* C2: when load_spec fails, no phase runs and the report is invalid with one
\* conformance-error entry, no lint warnings and exit code 1, under every flag
C2_LoadFailure ==
  /\ (pc # "load" /\ InputUnloadable) => LoadRaised
  /\ LoadRaised =>
       /\ Len(called) = 1
       /\ results.lint_warnings = <<>>
       /\ pc \in {"output", "done"} =>
            /\ ~results.valid
            /\ Len(results.schema_errors) = 1
            /\ results.schema_errors[1].tag \in {"File not found", "Failed to parse spec"}
       /\ pc = "done" => exit_code = 1

\* a run on malformed JSON with both phases requested that has exited
C2_Witness ==
  /\ pc = "done"
  /\ LoadRaised /\ called[1].exc = "JSONDecodeError"
  /\ ~args.lint_only /\ ~args.schema_only
  /\ exit_code = 1

\* number of findings validate_schema returned in this run (0 when it was not called)
ConformanceCount ==
  IF CallsOf("validate_schema") = {} THEN 0
  ELSE called[CHOOSE i \in CallsOf("validate_schema") : TRUE].n

\* C1: valid is true iff the conformance phase was skipped or returned no
\* finding, whatever the lint phase produces and however it ends
C1_ValidIffConformanceClean ==
  (pc = "done" /\ ~LoadRaised) =>
    (results.valid <=> (args.lint_only \/ ConformanceCount = 0))

\* C4: a failure of the validator other than a conformance violation always
\* yields an "ERROR" finding with the trimmed message, never an empty list
C4_FailureNeverSuppressed ==
  (pc = "lint" /\ \E i \in CallsOf("validate") : called[i].exc = "Exception") =>
    /\ Len(results.schema_errors) = 1
    /\ results.schema_errors[1].tag = "ERROR"
    /\ results.schema_errors[1].msg = Strip(env.validator.msg)

\* C5: with the validator unavailable, validate_schema returns one finding
\* without calling the validator, and the run is not reported as invalid
C5_MissingToolNotInvalid ==
  (/\ pc = "done" /\ ~LoadRaised /\ ~args.lint_only /\ ~env.VALIDATOR_AVAILABLE
   /\ \A i \in CallsOf("lint_spec") : called[i].exc = "none") =>
    /\ ConformanceCount = 1
    /\ CallsOf("validate") = {}
    /\ results.valid
    /\ exit_code = 0

====
